---- MODULE Spec2Model ----
(***************************************************************************)
(* Booking gateway (server.js): an Express server that proxies two         *)
(* operations, availability check and event creation, to a remote          *)
(* calendar.  The model covers the start-up sequence (credential check,    *)
(* authentication, listen), the process-level handlers (SIGINT,            *)
(* uncaughtException, unhandledRejection), the CORS origin check, the      *)
(* ensureCalendarInitialized middleware and the three route handlers, with *)
(* every await as a point where other requests and events interleave.      *)
(***************************************************************************)
EXTENDS Integers, Sequences, FiniteSets, TLC

VARIABLES
    env,            \* process.env: GOOGLE_CLIENT_EMAIL, GOOGLE_PRIVATE_KEY, CALENDAR_ID
    phase,          \* position of startServer(): "start", "auth", "ready", "listening"
    initSuccess,    \* const initSuccess of startServer: "pending", "true", "false"
    calendarClient, \* the global handle: Undefined, Null or "client"
    writes,         \* number of assignments made to calendarClient
    server,         \* http server: "none", "listening", "closing", "closed"
    closeCallbacks, \* exit codes of the callbacks waiting for the server's 'close'
    exitStatus,     \* "running", "exit0", "exit1", "killed"
    signals,        \* number of process-level events delivered so far
    logged,         \* number of unhandled rejections logged
    conns,          \* one record per connection slot (a request being served)
    calendar,       \* the remote calendar: a set of events [seq, start, end]
    gates           \* decisions ensureCalendarInitialized has taken in this process

vars == <<env, phase, initSuccess, calendarClient, writes, server, closeCallbacks,
          exitStatus, signals, logged, conns, calendar, gates>>

(***************************************************************************)
(* Bounds of the exploration.                                              *)
(***************************************************************************)
MaxInFlight == 2    \* connections served at the same time
MaxSignals == 2     \* process-level events (SIGINT, faults, rejections) delivered
MaxEvents == 2      \* events the remote calendar may hold
NumStarts == 2      \* distinct half-hour instants a request may name as its start

(***************************************************************************)
(* JavaScript values.                                                      *)
(***************************************************************************)
Undefined == "<undefined>"

Null == "<null>"

\* !v for the values the model uses: undefined, null and "" are falsy.
Falsy(v) == v \in {Undefined, Null, ""}

Truthy(v) == ~Falsy(v)

(***************************************************************************)
(* Dates.  Instants are milliseconds counted from 2024-06-01T00:00:00Z.    *)
(***************************************************************************)
NaN == -1

HalfHourMs == 30 * 60 * 1000

Instants == {(20 + k) * HalfHourMs : k \in 0..(NumStarts + 1)}

StartInstants == {(20 + k) * HalfHourMs : k \in 0..(NumStarts - 1)}

Pad2(n) == IF n < 10 THEN "0" \o ToString(n) ELSE ToString(n)

HourMinute(ms) == Pad2(ms \div 3600000) \o ":" \o Pad2((ms % 3600000) \div 60000)

\* The form clients send: no fraction of a second.
IsoZ(ms) == "2024-06-01T" \o HourMinute(ms) \o ":00Z"

\* Date.prototype.toISOString: always with milliseconds.
ToISOString(ms) == "2024-06-01T" \o HourMinute(ms) \o ":00.000Z"

\* new Date(s).getTime(): NaN for a string that is no date.
ParseDate(s) ==
    IF \E ms \in Instants : s = IsoZ(ms) \/ s = ToISOString(ms)
    THEN CHOOSE ms \in Instants : s = IsoZ(ms) \/ s = ToISOString(ms)
    ELSE NaN

(***************************************************************************)
(* Environment and CORS configuration.                                     *)
(***************************************************************************)
EnvNames == {"GOOGLE_CLIENT_EMAIL", "GOOGLE_PRIVATE_KEY", "CALENDAR_ID"}

AllSet == [n \in EnvNames |-> "set"]

\* The environments explored: complete, one variable absent or empty, none set.
EnvConfigs ==
    {AllSet, [n \in EnvNames |-> Undefined]} \cup
    {[AllSet EXCEPT ![n] = v] : n \in EnvNames, v \in {Undefined, ""}}

GOOGLE_CLIENT_EMAIL == env["GOOGLE_CLIENT_EMAIL"]

GOOGLE_PRIVATE_KEY == env["GOOGLE_PRIVATE_KEY"]

CALENDAR_ID == env["CALENDAR_ID"]

allowedOrigins ==
    {"http://localhost:3000", "http://127.0.0.1:3000", "http://localhost:3001",
     "http://127.0.0.1:3001", "http://localhost:5173", "http://127.0.0.1:5173",
     "https://odrienmerter.github.io"}

\* corsOptions.origin: no Origin header, or an origin of the allow-list.
CorsAllows(origin) == Falsy(origin) \/ origin \in allowedOrigins

(***************************************************************************)
(* Start-up: startServer() awaits initializeGoogleCalendar(), then calls   *)
(* app.listen and registers the process handlers in one synchronous run.   *)
(***************************************************************************)
\* Variant of the guard that forgets CALENDAR_ID.
CredentialsPresentNoCalendarId ==
    Truthy(GOOGLE_CLIENT_EMAIL) /\ Truthy(GOOGLE_PRIVATE_KEY)

\* The guard of initializeGoogleCalendar, negated.
CredentialsPresent ==
    Truthy(GOOGLE_CLIENT_EMAIL) /\ Truthy(GOOGLE_PRIVATE_KEY) /\ Truthy(CALENDAR_ID)

\* Variant that builds the client before awaiting auth.getClient() and keeps it.
ClientAfterAuthKept(ok) == "client"

\* What initializeGoogleCalendar leaves in the handle once auth.getClient() settles.
ClientAfterAuth(ok) == IF ok THEN "client" ELSE Null

\* Variant of startServer() that calls app.listen without awaiting the initialization.
ListenPositionsEarly == {"start", "auth", "done"}

\* The positions of startServer() at which app.listen may run: after the await only.
ListenPositions == {"done"}

Running == exitStatus = "running"

\* initializeGoogleCalendar up to its first await.
InitializeCheck ==
    /\ Running
    /\ phase = "start"
    /\ IF CredentialsPresent
       THEN /\ phase' = "auth"
            /\ initSuccess' = initSuccess
       ELSE /\ phase' = "done"
            /\ initSuccess' = "false"
    /\ UNCHANGED <<env, calendarClient, writes, server, closeCallbacks, exitStatus,
                   signals, logged, conns, calendar, gates>>

\* auth.getClient() settles: the try block completes, or the catch block runs.
InitializeSettle ==
    /\ Running
    /\ phase = "auth"
    /\ \E ok \in BOOLEAN :
        /\ calendarClient' = ClientAfterAuth(ok)
        /\ initSuccess' = IF ok THEN "true" ELSE "false"
    /\ writes' = writes + 1
    /\ phase' = "done"
    /\ UNCHANGED <<env, server, closeCallbacks, exitStatus, signals, logged, conns,
                   calendar, gates>>

\* app.listen and the three process.on registrations.
Listen ==
    /\ Running
    /\ server = "none"
    /\ phase \in ListenPositions
    /\ server' = "listening"
    /\ UNCHANGED <<env, phase, initSuccess, calendarClient, writes, closeCallbacks,
                   exitStatus, signals, logged, conns, calendar, gates>>

(***************************************************************************)
(* Process-level handlers.  They exist once startServer() has registered   *)
(* them, that is once the server object exists.                            *)
(***************************************************************************)
HandlersRegistered == server # "none"

\* server.close found no connection left, or the last one has just ended: the
\* 'close' event is queued with process.nextTick and runs before any other event.
CloseDue ==
    /\ server = "closing"
    /\ \A c \in DOMAIN conns : conns[c].stage = "idle"

SigintExitCode == 0

FaultExitCode == 1

ExitStatusOf(code) == IF code = 0 THEN "exit0" ELSE "exit1"

\* server.close(cb): stop accepting; cb runs on 'close', once every connection ended.
ServerClose(code) ==
    /\ server' = IF server = "listening" THEN "closing" ELSE server
    /\ closeCallbacks' = Append(closeCallbacks, code)

\* process.on('SIGINT', ...)
OnSigint ==
    /\ ServerClose(SigintExitCode)
    /\ UNCHANGED <<exitStatus, logged>>

\* process.on('uncaughtException', ...)
OnUncaughtException ==
    /\ ServerClose(FaultExitCode)
    /\ UNCHANGED <<exitStatus, logged>>

\* Variant of the unhandledRejection handler with its commented-out close restored.
OnUnhandledRejectionClosing ==
    /\ logged' = logged + 1
    /\ ServerClose(FaultExitCode)
    /\ UNCHANGED exitStatus

\* process.on('unhandledRejection', ...): console.error only.
OnUnhandledRejection ==
    /\ logged' = logged + 1
    /\ UNCHANGED <<server, closeCallbacks, exitStatus>>

\* An interrupt signal.  Before the handler is registered the runtime's default
\* disposition ends the process (no exit code of the program's choosing).
Sigint ==
    /\ Running
    /\ ~CloseDue
    /\ signals < MaxSignals
    /\ signals' = signals + 1
    /\ IF HandlersRegistered
       THEN OnSigint
       ELSE /\ exitStatus' = "killed"
            /\ UNCHANGED <<server, closeCallbacks, logged>>
    /\ UNCHANGED <<env, phase, initSuccess, calendarClient, writes, conns, calendar, gates>>

\* A fault thrown outside every try block while the server runs.
UncaughtException ==
    /\ Running
    /\ HandlersRegistered
    /\ ~CloseDue
    /\ signals < MaxSignals
    /\ signals' = signals + 1
    /\ OnUncaughtException
    /\ UNCHANGED <<env, phase, initSuccess, calendarClient, writes, conns, calendar, gates>>

\* A promise rejected with no handler while the server runs.
UnhandledRejection ==
    /\ Running
    /\ HandlersRegistered
    /\ ~CloseDue
    /\ signals < MaxSignals
    /\ signals' = signals + 1
    /\ OnUnhandledRejection
    /\ UNCHANGED <<env, phase, initSuccess, calendarClient, writes, conns, calendar, gates>>

\* The server's 'close' event: no listener left and no connection left.  The
\* callbacks run in registration order and the first one calls process.exit.
CloseDrained ==
    /\ Running
    /\ CloseDue
    /\ closeCallbacks # <<>>
    /\ server' = "closed"
    /\ exitStatus' = ExitStatusOf(Head(closeCallbacks))
    /\ UNCHANGED <<env, phase, initSuccess, calendarClient, writes, closeCallbacks,
                   signals, logged, conns, calendar, gates>>

(***************************************************************************)
(* Requests, remote calls, replies and responses.                          *)
(***************************************************************************)
NoBody ==
    [summary |-> Undefined, startDateTimeISO |-> Undefined, endDateTimeISO |-> Undefined,
     description |-> Undefined, email |-> Undefined]

NoEvent == [none |-> TRUE]

NoCall ==
    [api |-> "none", calendarId |-> Undefined, timeMin |-> Undefined, timeMax |-> Undefined,
     maxResults |-> 0, singleEvents |-> FALSE, orderBy |-> Undefined,
     resource |-> NoEvent, sendNotifications |-> FALSE]

NoError == [hasResponse |-> FALSE, hasData |-> FALSE, hasError |-> FALSE, code |-> 0]

NoReply ==
    [kind |-> "none", hasItems |-> FALSE, items |-> <<>>, overlapping |-> 0,
     htmlLink |-> Undefined, id |-> Undefined, error |-> NoError]

NoPayload ==
    [kind |-> "none", error |-> Undefined, available |-> FALSE, success |-> FALSE,
     eventLink |-> Undefined, eventId |-> Undefined, message |-> Undefined]

\* res.json({ error: msg })
JsonError(msg) == [NoPayload EXCEPT !.kind = "error", !.error = msg]

\* res.json({ available: b })
JsonAvailable(b) == [NoPayload EXCEPT !.kind = "available", !.available = b]

\* res.json({ success: true, eventLink: link, eventId: id })
JsonBooking(link, id) ==
    [NoPayload EXCEPT !.kind = "booking", !.success = TRUE, !.eventLink = link,
                      !.eventId = id]

\* res.json({ message: m })
JsonMessage(m) == [NoPayload EXCEPT !.kind = "message", !.message = m]

\* Express's final handler for the Error the CORS callback passes on.
ErrorPage == [NoPayload EXCEPT !.kind = "errorPage"]

IdleConn ==
    [stage |-> "idle", route |-> "none", origin |-> Undefined, body |-> NoBody,
     gate |-> "none", calls |-> 0, call |-> NoCall, reply |-> NoReply,
     status |-> 0, payload |-> NoPayload]

\* A handler's synchronous outcome: a response, or a remote call to await.
Respond(status, payload) ==
    [stage |-> "responded", calls |-> 0, call |-> NoCall, status |-> status,
     payload |-> payload]

Await(call) ==
    [stage |-> "awaiting", calls |-> 1, call |-> call, status |-> 0, payload |-> NoPayload]

\* A continuation's outcome: the response that ends the request.
Answer(status, payload) == [stage |-> "responded", status |-> status, payload |-> payload]

MsgUnavailable == "Service Google Calendar indisponible. Veuillez réessayer plus tard."

MsgConfig == "Configuration du calendrier invalide côté serveur."

MsgCheckMissing == "Date et heure de début manquantes pour la vérification."

MsgCheckFailed == "Erreur serveur lors de la vérification de disponibilité."

MsgCreateMissing ==
    "Les informations de résumé, date/heure de début et de fin sont requises."

MsgSlotTaken == "Ce créneau horaire est déjà occupé. Veuillez choisir un autre créneau."

MsgCreateFailed == "Erreur serveur lors de la création de la réservation."

MsgRoot == "Serveur backend de réservation en ligne actif !"

\* Variant of ensureCalendarInitialized that tests the handle against undefined only.
EnsureOnlyUndefined(client) == IF client = Undefined THEN "blocked" ELSE "passed"

\* ensureCalendarInitialized: 503 unless the handle is truthy.
ensureCalendarInitialized(client) == IF Falsy(client) THEN "blocked" ELSE "passed"

\* The length of the probe window of check-availability.
ProbeWindowMs == 30 * 60 * 1000

\* maxResults of the events.list call.
ListMaxResults == 1

\* POST /api/check-availability up to its await.
CheckAvailabilitySync(body, calendarId) ==
    IF Falsy(calendarId) THEN Respond(500, JsonError(MsgConfig))
    ELSE IF Falsy(body.startDateTimeISO) THEN Respond(400, JsonError(MsgCheckMissing))
    ELSE LET startTime == ParseDate(body.startDateTimeISO)
         IN  IF startTime = NaN
             THEN \* toISOString throws RangeError inside the try block
                  Respond(500, JsonError(MsgCheckFailed))
             ELSE Await([NoCall EXCEPT
                      !.api = "events.list",
                      !.calendarId = calendarId,
                      !.timeMin = body.startDateTimeISO,
                      !.timeMax = ToISOString(startTime + ProbeWindowMs),
                      !.maxResults = ListMaxResults,
                      !.singleEvents = TRUE,
                      !.orderBy = "startTime"])

\* Variant of the continuation of check-availability with the negation dropped.
CheckAvailabilityResumeInverted(reply) ==
    IF reply.kind = "data"
    THEN Answer(200, JsonAvailable(reply.hasItems /\ Len(reply.items) > 0))
    ELSE Answer(500, JsonError(MsgCheckFailed))

\* Variant of the continuation of check-availability that calls events.list again
\* after a failure.
CheckAvailabilityResumeRetry(reply) ==
    IF reply.kind = "data"
    THEN Answer(200, JsonAvailable(~(reply.hasItems /\ Len(reply.items) > 0)))
    ELSE [stage |-> "awaiting", status |-> 0, payload |-> NoPayload]

\* The continuation of check-availability once events.list settles.
CheckAvailabilityResume(reply) ==
    IF reply.kind = "data"
    THEN Answer(200, JsonAvailable(~(reply.hasItems /\ Len(reply.items) > 0)))
    ELSE Answer(500, JsonError(MsgCheckFailed))

\* Variant of the event record with the attendees line restored.
BookingEventWithAttendees(body) ==
    [summary |-> body.summary,
     start |-> [dateTime |-> body.startDateTimeISO, timeZone |-> "Europe/Paris"],
     end |-> [dateTime |-> body.endDateTimeISO, timeZone |-> "Europe/Paris"],
     description |-> body.description,
     attendees |-> IF Truthy(body.email)
                   THEN <<[email |-> body.email, responseStatus |-> "accepted"]>>
                   ELSE <<>>,
     reminders |-> [useDefault |-> FALSE,
                    overrides |-> <<[method |-> "email", minutes |-> 24 * 60],
                                    [method |-> "popup", minutes |-> 10]>>]]

\* The event record of create-booking.
BookingEvent(body) ==
    [summary |-> body.summary,
     start |-> [dateTime |-> body.startDateTimeISO, timeZone |-> "Europe/Paris"],
     end |-> [dateTime |-> body.endDateTimeISO, timeZone |-> "Europe/Paris"],
     description |-> body.description,
     reminders |-> [useDefault |-> FALSE,
                    overrides |-> <<[method |-> "email", minutes |-> 24 * 60],
                                    [method |-> "popup", minutes |-> 10]>>]]

\* Variant of create-booking whose validation forgets endDateTimeISO.
CreateBookingSyncNoEnd(body, calendarId) ==
    IF Falsy(body.summary) \/ Falsy(body.startDateTimeISO)
    THEN Respond(400, JsonError(MsgCreateMissing))
    ELSE IF Falsy(calendarId) THEN Respond(500, JsonError(MsgConfig))
    ELSE Await([NoCall EXCEPT
             !.api = "events.insert",
             !.calendarId = calendarId,
             !.resource = BookingEvent(body),
             !.sendNotifications = TRUE])

\* POST /api/create-booking up to its await.
CreateBookingSync(body, calendarId) ==
    IF Falsy(body.summary) \/ Falsy(body.startDateTimeISO) \/ Falsy(body.endDateTimeISO)
    THEN Respond(400, JsonError(MsgCreateMissing))
    ELSE IF Falsy(calendarId) THEN Respond(500, JsonError(MsgConfig))
    ELSE Await([NoCall EXCEPT
             !.api = "events.insert",
             !.calendarId = calendarId,
             !.resource = BookingEvent(body),
             !.sendNotifications = TRUE])

\* Variant of the conflict test that forgets to compare the code.
IsConflictAnyApiError(error) == error.hasResponse /\ error.hasData /\ error.hasError

\* The test of the catch block of create-booking.
IsConflict(error) ==
    error.hasResponse /\ error.hasData /\ error.hasError /\ error.code = 409

\* The continuation of create-booking once events.insert settles.
CreateBookingResume(reply) ==
    IF reply.kind = "data"
    THEN Answer(200, JsonBooking(reply.htmlLink, reply.id))
    ELSE IF IsConflict(reply.error)
    THEN Answer(409, JsonError(MsgSlotTaken))
    ELSE Answer(500, JsonError(MsgCreateFailed))

\* The middleware chain and the handler, for a request whose body has been parsed:
\* cors, then for the protected routes ensureCalendarInitialized, then the handler.
Handle(route, origin, body) ==
    IF ~CorsAllows(origin)
    THEN [gate |-> "none"] @@ Respond(500, ErrorPage)
    ELSE IF route = "root"
    THEN [gate |-> "none"] @@ Respond(200, JsonMessage(MsgRoot))
    ELSE IF ensureCalendarInitialized(calendarClient) = "blocked"
    THEN [gate |-> "blocked"] @@ Respond(503, JsonError(MsgUnavailable))
    ELSE IF route = "check"
    THEN [gate |-> "passed"] @@ CheckAvailabilitySync(body, CALENDAR_ID)
    ELSE [gate |-> "passed"] @@ CreateBookingSync(body, CALENDAR_ID)

(***************************************************************************)
(* The remote calendar service.                                            *)
(***************************************************************************)
\* The events of cal that overlap the window (timeMin, timeMax) of events.list:
\* those that end after timeMin and start before timeMax.
Matching(cal, timeMin, timeMax) == {e \in cal : e.end > timeMin /\ e.start < timeMax}

RECURSIVE SortedByStart(_)
\* orderBy: 'startTime' (ties broken by order of creation).
SortedByStart(S) ==
    IF S = {} THEN <<>>
    ELSE LET first == CHOOSE e \in S :
                        \A o \in S : e.start < o.start \/ (e.start = o.start /\ e.seq <= o.seq)
         IN  <<first>> \o SortedByStart(S \ {first})

\* The first n elements of a sequence.
Take(seq, n) == SubSeq(seq, 1, IF n < Len(seq) THEN n ELSE Len(seq))

NetworkError == NoError

ResponseWithoutData == [NoError EXCEPT !.hasResponse = TRUE]

DataWithoutError == [NoError EXCEPT !.hasResponse = TRUE, !.hasData = TRUE]

ApiError(code) ==
    [hasResponse |-> TRUE, hasData |-> TRUE, hasError |-> TRUE, code |-> code]

\* The shapes of the error a rejected remote call carries.
ErrorShapes ==
    {NetworkError, ResponseWithoutData, DataWithoutError} \cup
    {ApiError(code) : code \in {403, 409}}

ErrorReply(error) == [NoReply EXCEPT !.kind = "error", !.error = error]

\* The events list returns, as the client sees them.
Item(e) == [id |-> "evt" \o ToString(e.seq), start |-> ToISOString(e.start),
            end |-> ToISOString(e.end)]

\* The replies events.list may give to call, the calendar being cal.
ListReplies(cal, call) ==
    LET timeMin == ParseDate(call.timeMin)
        timeMax == ParseDate(call.timeMax)
        found == Matching(cal, timeMin, timeMax)
        sorted == SortedByStart(found)
        items == Take([i \in 1..Len(sorted) |-> Item(sorted[i])], call.maxResults)
    IN  IF timeMin = NaN \/ timeMax = NaN
        THEN {ErrorReply(ApiError(400))}
        ELSE {ErrorReply(e) : e \in {NetworkError, ApiError(403)}} \cup
             {[NoReply EXCEPT !.kind = "data", !.hasItems = h, !.items = items,
                              !.overlapping = Cardinality(found)] :
                 h \in IF items = <<>> THEN BOOLEAN ELSE {TRUE}}

NextEventId(cal) == "evt" \o ToString(Cardinality(cal) + 1)


\* The event the remote stores for an accepted events.insert.
StoredEvent(cal, resource) ==
    [seq |-> Cardinality(cal) + 1, start |-> ParseDate(resource.start.dateTime),
     end |-> ParseDate(resource.end.dateTime)]

\* Whether the remote accepts the resource of an events.insert at all.
ValidResource(resource) ==
    /\ ParseDate(resource.start.dateTime) # NaN
    /\ ParseDate(resource.end.dateTime) # NaN
    /\ ParseDate(resource.start.dateTime) < ParseDate(resource.end.dateTime)

\* The replies events.insert may give to call, each with the calendar it leaves.
InsertOutcomes(cal, call) ==
    IF ~ValidResource(call.resource)
    THEN {[reply |-> ErrorReply(ApiError(400)), calendar |-> cal]}
    ELSE {[reply |-> ErrorReply(e), calendar |-> cal] : e \in ErrorShapes} \cup
         IF Cardinality(cal) < MaxEvents
         THEN {[reply |-> [NoReply EXCEPT
                    !.kind = "data",
                    !.id = NextEventId(cal),
                    !.htmlLink = "https://www.google.com/calendar/event?eid=" \o NextEventId(cal)],
                calendar |-> cal \cup {StoredEvent(cal, call.resource)}]}
         ELSE {}

\* What the remote may answer to call, with the calendar each answer leaves.
RemoteOutcomes(cal, call) ==
    IF call.api = "events.list"
    THEN {[reply |-> r, calendar |-> cal] : r \in ListReplies(cal, call)}
    ELSE InsertOutcomes(cal, call)

(***************************************************************************)
(* The requests explored.                                                  *)
(***************************************************************************)
Conns == 1..MaxInFlight

EndValue == IsoZ((20 + NumStarts) * HalfHourMs)

SoloBodies ==
    [summary : {Undefined, "", "Consult"},
     startDateTimeISO : {Undefined, "not-a-date"} \cup {IsoZ(t) : t \in StartInstants},
     endDateTimeISO : {Undefined, EndValue},
     description : {Undefined, "Coupe homme"},
     email : {Undefined, "", "client@example.com"}]

FirstStart == IsoZ(20 * HalfHourMs)

PlainBooking ==
    [NoBody EXCEPT !.summary = "Consult", !.startDateTimeISO = FirstStart,
                   !.endDateTimeISO = EndValue]

Origins == {Undefined, "https://odrienmerter.github.io", "https://evil.example"}

\* Requests explored also while other requests are in flight.
ConcurrentRequests ==
    {[route |-> "root", origin |-> Undefined, body |-> NoBody]} \cup
    [route : {"check", "create"}, origin : {Undefined},
     body : {PlainBooking, [PlainBooking EXCEPT !.startDateTimeISO = Undefined]}]

\* Requests explored while no other request is in flight.
SoloRequests ==
    ConcurrentRequests \cup
    [route : {"root", "check", "create"}, origin : Origins, body : {NoBody, PlainBooking}] \cup
    [route : {"check", "create"}, origin : {Undefined}, body : SoloBodies]

\* Requests explored together with the process-level events.
LifecycleRequests ==
    [route : {"root", "check"}, origin : {Undefined}, body : {PlainBooking}]

RequestOf(conn) == [route |-> conn.route, origin |-> conn.origin, body |-> conn.body]

AllIdle == \A c \in Conns : conns[c].stage = "idle"

\* The requests a new connection may carry: any explored request when it is alone,
\* and a request of ConcurrentRequests when it overlaps others of that set.
Arrivals ==
    IF AllIdle THEN SoloRequests
    ELSE IF \A c \in Conns : conns[c].stage = "idle" \/ RequestOf(conns[c]) \in ConcurrentRequests
    THEN ConcurrentRequests
    ELSE {}

(***************************************************************************)
(* Request steps.                                                          *)
(***************************************************************************)
\* A connection is accepted and express.json parses its body.
Accept(c, requests) ==
    /\ Running
    /\ server = "listening"
    /\ conns[c].stage = "idle"
    /\ \A d \in Conns : d < c => conns[d].stage # "idle"
    /\ \E req \in requests :
        conns' = [conns EXCEPT ![c] = [IdleConn EXCEPT !.stage = "received",
                                           !.route = req.route, !.origin = req.origin,
                                           !.body = req.body]]
    /\ UNCHANGED <<env, phase, initSuccess, calendarClient, writes, server, closeCallbacks,
                   exitStatus, signals, logged, calendar, gates>>

\* The middleware chain and the route handler run up to the handler's await.
Dispatch(c) ==
    /\ Running
    /\ conns[c].stage = "received"
    /\ LET h == Handle(conns[c].route, conns[c].origin, conns[c].body)
       IN  /\ conns' = [conns EXCEPT ![c] = [@ EXCEPT !.stage = h.stage, !.gate = h.gate,
                                                 !.calls = @ + h.calls, !.call = h.call,
                                                 !.status = h.status, !.payload = h.payload]]
           /\ gates' = IF h.gate = "none" THEN gates ELSE gates \cup {h.gate}
    /\ UNCHANGED <<env, phase, initSuccess, calendarClient, writes, server, closeCallbacks,
                   exitStatus, signals, logged, calendar>>

\* The handler's continuation for a settled call.
ResumeHandler(route, reply) ==
    IF route = "check" THEN CheckAvailabilityResume(reply) ELSE CreateBookingResume(reply)

\* The remote calendar serves the call in flight, the awaited promise settles and
\* the handler resumes in the microtask that follows, answering the request.
Settle(c) ==
    /\ Running
    /\ conns[c].stage = "awaiting"
    /\ \E o \in RemoteOutcomes(calendar, conns[c].call) :
        LET r == ResumeHandler(conns[c].route, o.reply)
        IN  /\ conns' = [conns EXCEPT ![c] =
                            [@ EXCEPT !.stage = r.stage, !.reply = o.reply,
                                      !.calls = IF r.stage = "awaiting" THEN @ + 1 ELSE @,
                                      !.status = r.status, !.payload = r.payload]]
            /\ calendar' = o.calendar
    /\ UNCHANGED <<env, phase, initSuccess, calendarClient, writes, server, closeCallbacks,
                   exitStatus, signals, logged, gates>>

\* The response has been written and the connection ends.
Finish(c) ==
    /\ Running
    /\ conns[c].stage = "responded"
    /\ conns' = [conns EXCEPT ![c] = IdleConn]
    /\ UNCHANGED <<env, phase, initSuccess, calendarClient, writes, server, closeCallbacks,
                   exitStatus, signals, logged, calendar, gates>>

(***************************************************************************)
(* The specification.                                                      *)
(***************************************************************************)
Init ==
    /\ env \in EnvConfigs
    /\ phase = "start"
    /\ initSuccess = "pending"
    /\ calendarClient = Undefined
    /\ writes = 0
    /\ server = "none"
    /\ closeCallbacks = <<>>
    /\ exitStatus = "running"
    /\ signals = 0
    /\ logged = 0
    /\ conns = [c \in Conns |-> IdleConn]
    /\ calendar = {}
    /\ gates = {}

\* Request handling, from start-up on, with no process-level event.
Next ==
    \/ InitializeCheck
    \/ InitializeSettle
    \/ Listen
    \/ \E c \in Conns : Accept(c, Arrivals)
    \/ \E c \in Conns : Dispatch(c)
    \/ \E c \in Conns : Settle(c)
    \/ \E c \in Conns : Finish(c)

Spec == Init /\ [][Next]_vars

\* The process-level events, with requests in flight.
NextLifecycle ==
    \/ InitializeCheck
    \/ InitializeSettle
    \/ Listen
    \/ Sigint
    \/ UncaughtException
    \/ UnhandledRejection
    \/ CloseDrained
    \/ \E c \in Conns : Accept(c, LifecycleRequests)
    \/ \E c \in Conns : Dispatch(c)
    \/ \E c \in Conns : Settle(c)
    \/ \E c \in Conns : Finish(c)

SpecLifecycle == Init /\ [][NextLifecycle]_vars

(***************************************************************************)
(* Properties.                                                             *)
(***************************************************************************)
Protected(conn) == conn.route \in {"check", "create"}

\* The request of conn has been handed to its route: it passed the CORS check and
\* the handler (with its middleware) has run up to its first await or its response.
Routed(conn) == conn.stage \in {"awaiting", "responded"} /\ CorsAllows(conn.origin)

Uninitialized == Falsy(calendarClient)

Ready == ~Uninitialized

Missing(v) == v = Undefined

MissingRequired(conn) ==
    \/ conn.route = "check" /\ Missing(conn.body.startDateTimeISO)
    \/ /\ conn.route = "create"
       /\ \/ Missing(conn.body.summary)
          \/ Missing(conn.body.startDateTimeISO)
          \/ Missing(conn.body.endDateTimeISO)

\* C1: while the handle is Uninitialized, every request handed to a protected
\* route is answered 503 with the service-unavailable message, whatever its body,
\* and no events.list or events.insert call is made for it.
C1_UninitializedAnswers503 ==
    \A c \in Conns :
        (Uninitialized /\ Protected(conns[c]) /\ Routed(conns[c])) =>
            /\ conns[c].stage = "responded"
            /\ conns[c].status = 503
            /\ conns[c].payload = JsonError(MsgUnavailable)
            /\ conns[c].calls = 0
            /\ conns[c].call.api = "none"
            /\ conns[c].reply.kind = "none"

\* C1 witness: after a failed authentication a complete booking request is
\* answered 503.
C1_Witness ==
    \E c \in Conns :
        /\ calendarClient = Null
        /\ conns[c].route = "create"
        /\ conns[c].body = PlainBooking
        /\ conns[c].status = 503

\* C2 as stated: every request handed to a protected route that lacks a required
\* field is answered 400.
C2_MissingFieldAlways400 ==
    \A c \in Conns :
        (Protected(conns[c]) /\ Routed(conns[c]) /\ MissingRequired(conns[c])) =>
            conns[c].status = 400

\* C2 amended: while the handle is Ready, every request handed to a protected
\* route that lacks a required field is answered 400 and makes no remote call; while
\* it is Uninitialized the same request is answered 503.
C2_MissingField400WhenReady ==
    \A c \in Conns :
        (Protected(conns[c]) /\ Routed(conns[c]) /\ MissingRequired(conns[c])) =>
            /\ conns[c].stage = "responded"
            /\ conns[c].calls = 0
            /\ conns[c].status = IF Ready THEN 400 ELSE 503
            /\ Ready => conns[c].payload =
                   JsonError(IF conns[c].route = "check" THEN MsgCheckMissing
                             ELSE MsgCreateMissing)

\* C2 witness: on a Ready gateway a booking request whose only missing field is
\* endDateTimeISO is answered 400.
C2_Witness ==
    \E c \in Conns :
        /\ Ready
        /\ conns[c].route = "create"
        /\ Truthy(conns[c].body.summary)
        /\ Truthy(conns[c].body.startDateTimeISO)
        /\ Missing(conns[c].body.endDateTimeISO)
        /\ conns[c].status = 400

\* C3: check-availability answers 200 exactly when events.list returns data, the
\* call asks for the window that starts at the requested instant and ends 30
\* minutes later, and available is true if and only if the calendar held no event
\* overlapping that window when it served the call; a reply with at least one
\* item is answered available = false.
C3_AvailableIffNoOverlap ==
    \A c \in Conns :
        (conns[c].route = "check" /\ conns[c].call.api = "events.list") =>
            /\ conns[c].call.timeMin = conns[c].body.startDateTimeISO
            /\ ParseDate(conns[c].call.timeMax) =
                   ParseDate(conns[c].body.startDateTimeISO) + 30 * 60 * 1000
            /\ conns[c].stage = "responded" =>
                   /\ conns[c].status = 200 <=> conns[c].reply.kind = "data"
                   /\ conns[c].status = 200 =>
                          /\ conns[c].payload.kind = "available"
                          /\ conns[c].payload.available <=> conns[c].reply.overlapping = 0
                   /\ (conns[c].reply.kind = "data" /\ Len(conns[c].reply.items) >= 1) =>
                          conns[c].status = 200 /\ ~conns[c].payload.available

\* C3 witness: a check answered available = false while another instant of the
\* same calendar would be free (the calendar holds an event, found in the window).
C3_Witness ==
    \E c \in Conns :
        /\ conns[c].route = "check"
        /\ conns[c].status = 200
        /\ ~conns[c].payload.available
        /\ conns[c].reply.overlapping >= 1

\* C4: when events.insert fails with an API error of code 409 the request is
\* answered 409 with the slot-taken message; every other failure of events.insert
\* is answered 500 with the generic message.
C4_ConflictAnswers409 ==
    \A c \in Conns :
        (conns[c].route = "create" /\ conns[c].stage = "responded"
             /\ conns[c].reply.kind = "error") =>
            IF conns[c].reply.error = ApiError(409)
            THEN conns[c].status = 409 /\ conns[c].payload = JsonError(MsgSlotTaken)
            ELSE conns[c].status = 500 /\ conns[c].payload = JsonError(MsgCreateFailed)

\* C4 witness: a booking whose insert was rejected with code 409 is answered 409.
C4_Witness ==
    \E c \in Conns :
        /\ conns[c].route = "create"
        /\ conns[c].reply.error = ApiError(409)
        /\ conns[c].status = 409

\* The texts an event record carries.
EventTexts(event) ==
    {event.summary, event.description, event.start.dateTime, event.start.timeZone,
     event.end.dateTime, event.end.timeZone} \cup
    {event.reminders.overrides[i].method : i \in DOMAIN event.reminders.overrides}

\* C5: the event submitted to events.insert has no attendees field, is the same
\* whatever the email field of the request (present, absent, empty), and a present
\* email value is none of the texts of the event.
C5_NoAttendees ==
    \A c \in Conns :
        conns[c].call.api = "events.insert" =>
            /\ DOMAIN conns[c].call.resource =
                   {"summary", "start", "end", "description", "reminders"}
            /\ "attendees" \notin DOMAIN conns[c].call.resource
            /\ \A e \in {Undefined, "", "client@example.com"} :
                   conns[c].call.resource = BookingEvent([conns[c].body EXCEPT !.email = e])
            /\ Truthy(conns[c].body.email) =>
                   conns[c].body.email \notin EventTexts(conns[c].call.resource)

\* C5 witness: a booking request carrying an email has its event accepted.
C5_Witness ==
    \E c \in Conns :
        /\ conns[c].call.api = "events.insert"
        /\ conns[c].body.email = "client@example.com"
        /\ conns[c].status = 200

\* C6: the handle is assigned at most once, and only by the initialization step.
\* If a credential variable is absent the handle is never assigned; if the
\* initialization failed the handle is falsy; and once the initialization is over
\* an Uninitialized handle stays Uninitialized through every request and event.
C6_HandleSetOnce ==
    /\ [](/\ writes <= 1
          /\ (\E n \in EnvNames : Falsy(env[n])) =>
                 (calendarClient = Undefined /\ writes = 0 /\ initSuccess # "true")
          /\ initSuccess = "false" => Uninitialized
          /\ phase = "done" => (initSuccess = "true" <=> Ready))
    /\ [][/\ calendarClient' # calendarClient => (phase = "auth" /\ phase' = "done")
          /\ (phase = "done" /\ Uninitialized) => (phase' = "done" /\ Falsy(calendarClient'))
          /\ initSuccess # "pending" => initSuccess' = initSuccess]_vars

\* C6 witness: after a failed authentication, with an interrupt pending, a
\* protected request has been answered 503 and the handle is still null.
C6_Witness ==
    /\ initSuccess = "false"
    /\ calendarClient = Null
    /\ writes = 1
    /\ signals >= 1
    /\ \E c \in Conns : conns[c].status = 503

\* C7: a request makes at most one remote call: none when it is answered 400, 503
\* or 500 for an absent calendar identifier, exactly one while it awaits the
\* remote or once the remote has replied; a failed call ends the request with an
\* error response and is not issued again.
C7_AtMostOneRemoteCall ==
    \A c \in Conns :
        /\ conns[c].calls <= 1
        /\ conns[c].calls = 1 <=> conns[c].call.api # "none"
        /\ conns[c].stage = "awaiting" => conns[c].calls = 1
        /\ (conns[c].status \in {400, 503} \/ conns[c].payload = JsonError(MsgConfig)) =>
               conns[c].calls = 0
        /\ conns[c].reply.kind # "none" => conns[c].calls = 1 /\ conns[c].stage = "responded"
        /\ conns[c].reply.kind = "error" => conns[c].status \in {409, 500}

\* C7 witness: while one request still awaits its remote call, another has had
\* its single call fail and has been answered 500.
C7_Witness ==
    \E c, d \in Conns :
        /\ c # d
        /\ conns[c].stage = "awaiting"
        /\ conns[d].reply.kind = "error"
        /\ conns[d].status = 500
        /\ conns[d].calls = 1

C9_ServeAfterInit ==
    /\ server # "none" => phase = "done"
    /\ \A c \in Conns : conns[c].stage # "idle" => phase = "done"
    /\ Cardinality(gates) <= 1
    /\ gates \subseteq {IF Uninitialized THEN "blocked" ELSE "passed"}
    /\ \A c \in Conns :
           conns[c].gate # "none" => conns[c].gate = IF Uninitialized THEN "blocked" ELSE "passed"

\* C9 witness: two requests in flight at once, both let through the gate.
C9_Witness ==
    \E c, d \in Conns :
        /\ c # d
        /\ conns[c].gate = "passed"
        /\ conns[d].gate = "passed"

\* check-availability with its two checks in the order of create-booking.
CheckValidationFirst(body, calendarId) ==
    IF Falsy(body.startDateTimeISO) THEN Respond(400, JsonError(MsgCheckMissing))
    ELSE IF Falsy(calendarId) THEN Respond(500, JsonError(MsgConfig))
    ELSE CheckAvailabilitySync(body, calendarId)

\* create-booking with its two checks in the order of check-availability.
CreateConfigFirst(body, calendarId) ==
    IF Falsy(calendarId) THEN Respond(500, JsonError(MsgConfig))
    ELSE CreateBookingSync(body, calendarId)

\* C10: a Ready handle implies a configured calendar identifier, so no request is
\* ever answered with the configuration error, and on a Ready gateway either order
\* of the validation and configuration checks gives the body of every request
\* received the same outcome on both routes.
C10_ConfigErrorUnreachable ==
    /\ Ready => Truthy(CALENDAR_ID)
    /\ \A c \in Conns : conns[c].payload # JsonError(MsgConfig)
    /\ \A c \in Conns : conns[c].gate = "passed" => Truthy(CALENDAR_ID)
    /\ \A c \in Conns :
           (Ready /\ conns[c].stage # "idle") =>
               /\ CheckAvailabilitySync(conns[c].body, CALENDAR_ID) =
                      CheckValidationFirst(conns[c].body, CALENDAR_ID)
               /\ CreateBookingSync(conns[c].body, CALENDAR_ID) =
                      CreateConfigFirst(conns[c].body, CALENDAR_ID)

\* C10 witness: on a Ready gateway a request with a missing field is answered 400,
\* the case in which the order of the two checks could matter.
C10_Witness ==
    \E c \in Conns :
        /\ Ready
        /\ conns[c].route = "check"
        /\ Missing(conns[c].body.startDateTimeISO)
        /\ conns[c].status = 400

====
